---- MODULE Spec2Model ----
(***************************************************************************)
(* Model of the cache-guarded fetcher of github-status                     *)
(* (src/src/data_fetcher.py): DataFetcher.fetch_incidents with its cache   *)
(* file, the clock it reads and the HTTP endpoint it asks.                 *)
(*                                                                         *)
(* Time is counted in ticks of the epoch clock (time.time()).  The code    *)
(* measures the age of a cache entry on naive local datetimes              *)
(* (datetime.fromtimestamp(ts), datetime.now()), so the local UTC offset   *)
(* is part of the model: it is a function of the instant, with at most one *)
(* change (a daylight-saving transition) inside the modelled window.       *)
(***************************************************************************)
EXTENDS Integers, Sequences, FiniteSets, TLC

\* ------------------------------------------------------------------ bounds
\* Last instant of the epoch clock the model looks at.
MaxTime == 3
\* Largest cache_ttl a fetcher is constructed with (ticks).
MaxTtl == 1
\* The instant at which the local UTC offset changes, in a zone where it
\* does: the middle of the window.
DstAt == (MaxTime + 1) \div 2

\* requests.get(self.api_url, timeout=30)
RequestTimeout == 30

\* ------------------------------------------------------------- JSON values
\* A parsed JSON value, as far as the code looks into it: its Python type
\* (kind), the pieces of a string or the string elements of a list (toks),
\* and for an object its keys, each with the type of its value (flds).
JVal(k, t, f) == [kind |-> k, toks |-> t, flds |-> f]

\* Python None; JSON null parses to it.
None == JVal("null", <<>>, {})
JNum == JVal("num", <<>>, {})
JStr(t) == JVal("str", t, {})
JArr(t) == JVal("arr", t, {})
JObj(f) == JVal("obj", <<>>, f)
\* A body that is not JSON at all: response.json() raises ValueError on it.
NotJson == JVal("notjson", <<>>, {})

\* Two payloads of the expected shape, one object without `incidents`, and
\* objects whose `incidents` value is not a collection.
PayloadA == JObj({<<"incidents", "arr">>, <<"page", "obj">>})
PayloadB == JObj({<<"incidents", "arr">>})
NoIncidents == JObj({<<"page", "obj">>})
IncidentsNull == JObj({<<"incidents", "null">>})

\* Python types on which len() is defined.
Sized == {"str", "arr", "obj"}

\* The parsed bodies the endpoint may answer with.
Bodies ==
    { PayloadA, PayloadB, NoIncidents, IncidentsNull, None, JNum,
      JStr(<<"abc">>), JStr(<<"my ", "incidents">>),
      JArr(<<"a">>), JArr(<<"incidents">>) }

\* The values the `data` field of a cache file may hold.
CacheData == { PayloadA, NoIncidents, None }

\* ----------------------------------------------------------- the endpoint
\* What requests.get does when it is called: it raises (exc), or it answers
\* with a status and a body.
TransportExc == {"ConnectionError", "Timeout"}
Statuses == {200, 404, 503}
\* How long the endpoint takes to answer (ticks).
Delays == {0, 1}
Responses ==
    [exc : TransportExc, status : {0}, body : {None}]
      \cup [exc : {"none"}, status : Statuses \ {200}, body : {None}]
      \cup [exc : {"none"}, status : {200}, body : Bodies \cup {NotJson}]

\* A raise_for_status that lets the 4XX responses through.
raise_for_status_5xx(resp) ==
    IF 500 <= resp.status /\ resp.status < 600 THEN "HTTPError" ELSE "none"

\* response.raise_for_status(): HTTPError for 4XX/5XX responses.
raise_for_status(resp) ==
    IF 400 <= resp.status /\ resp.status < 600 THEN "HTTPError" ELSE "none"

\* ---------------------------------------------------------- the cache file
\* The file at _get_cache_path(): st says what reading it gives.
\*   missing      os.path.exists is false
\*   unreadable   open/read raises IOError
\*   notjson      json.load raises JSONDecodeError (an empty file too)
\*   nondict      JSON, but not an object
\*   no_ts        an object without `timestamp`
\*   no_data      an object without `data`
\*   bad_ts       `timestamp` is there but is no number
\*   entry        an object with a numeric `timestamp` (ts) and `data`
File(s, t, d) == [st |-> s, ts |-> t, data |-> d]
BrokenKinds ==
    {"missing", "unreadable", "notjson", "nondict", "no_ts", "no_data",
     "bad_ts"}
CacheFiles ==
    { File(s, 0, None) : s \in BrokenKinds }
      \cup { File("entry", t, d) : t \in 0..MaxTime, d \in CacheData }

\* What a call of _save_to_cache meets: the write succeeds, open() fails
\* (missing directory, no permission), or the write fails after open()
\* truncated the file (disk full).
WriteOutcomes == {"ok", "openfail", "writefail"}

VARIABLES
    now,        \* the epoch clock, time.time()
    dstShift,   \* the change of the local UTC offset at DstAt (0: none)
    cache_ttl,  \* DataFetcher.cache_ttl
    cache,      \* the cache file
    last,       \* the last call of fetch_incidents and its outcome
    raw_data,   \* the payload handed to the DataProcessor
    result,     \* the last call of a DataProcessor method and its outcome
    cache_dir,  \* the files of a cache directory shared by several fetchers
    got,        \* the last call of a fetcher on the shared directory
    disk,       \* the bytes of a cache file two processes write
    writers,    \* where each of the two processes is in _save_to_cache
    legacy,     \* the file named by --cache-file
    run         \* the last run of main() and its outcome

vars ==
    <<now, dstShift, cache_ttl, cache, last, raw_data, result, cache_dir, got,
      disk, writers, legacy, run>>

\* The fetcher's part of the state and the processor's part.
fetcher_vars == <<now, dstShift, cache_ttl, cache, last>>
processor_vars == <<raw_data, result>>
\* The shared directory, the raced file, and the runs of main().
key_vars == <<cache_dir, got>>
race_vars == <<disk, writers>>
main_vars == <<legacy, run>>

\* ------------------------------------------------------------------- time
\* The local UTC offset in force at instant t, relative to the one in force
\* at instant 0.  One tick is the hour of a daylight-saving transition.
UtcOffset(t) == IF t >= DstAt THEN dstShift ELSE 0

\* datetime.fromtimestamp(t) and datetime.now(): the naive local datetime of
\* instant t, as a number of ticks.
fromtimestamp(t) == t + UtcOffset(t)

\* Line 125: (current_time - cache_time).total_seconds() > self.cache_ttl
Expired(current_time, cache_time) == current_time - cache_time > cache_ttl

\* -------------------------------------------------------- _load_from_cache
\* The result of _load_from_cache at instant t: the pair it returns, or the
\* exception that leaves it (exc).
Loaded(d, u, e) == [data |-> d, used |-> u, exc |-> e]

load_from_cache(file, t) ==
    IF file.st = "missing" THEN Loaded(None, FALSE, "none")
    ELSE IF file.st \in {"unreadable", "notjson"} THEN Loaded(None, FALSE, "none")
    ELSE IF file.st \in {"nondict", "no_ts", "no_data"} THEN Loaded(None, FALSE, "none")
    ELSE IF file.st = "bad_ts" THEN Loaded(None, FALSE, "TypeError")
    ELSE IF Expired(fromtimestamp(t), fromtimestamp(file.ts))
         THEN Loaded(None, FALSE, "none")
    ELSE Loaded(file.data, TRUE, "none")

\* ---------------------------------------------------------- _save_to_cache
\* _save_to_cache(data) at instant t: the cache file after it, the boolean
\* it returns and the exception that leaves it (none: IOError is caught).
Saved(f, o, e) == [file |-> f, ok |-> o, exc |-> e]

\* A _save_to_cache without its `except IOError`: the failure leaves it.
save_to_cache_raises(file, data, t, wr) ==
    IF wr = "ok" THEN Saved(File("entry", t, data), TRUE, "none")
    ELSE IF wr = "openfail" THEN Saved(file, FALSE, "IOError")
    ELSE Saved(File("notjson", 0, None), FALSE, "IOError")

\* A _save_to_cache that opens the file in mode 'x': an existing file stays.
save_to_cache_keeps(file, data, t, wr) ==
    IF file.st # "missing" THEN Saved(file, FALSE, "none")
    ELSE IF wr = "ok" THEN Saved(File("entry", t, data), TRUE, "none")
    ELSE IF wr = "openfail" THEN Saved(file, FALSE, "none")
    ELSE Saved(File("notjson", 0, None), FALSE, "none")

save_to_cache(file, data, t, wr) ==
    IF wr = "ok" THEN Saved(File("entry", t, data), TRUE, "none")
    ELSE IF wr = "openfail" THEN Saved(file, FALSE, "none")
    ELSE Saved(File("notjson", 0, None), FALSE, "none")

\* --------------------------------------------------------- fetch_incidents
\* Python's `"incidents" in data`: key of a dict, element of a list,
\* substring of a string; TypeError on None, numbers and booleans.
Contains(data) ==
    IF data.kind = "obj" THEN
        IF \E f \in data.flds : f[1] = "incidents" THEN "yes" ELSE "no"
    ELSE IF data.kind \in {"str", "arr"} THEN
        IF \E i \in DOMAIN data.toks : data.toks[i] = "incidents" THEN "yes" ELSE "no"
    ELSE "TypeError"

\* len(data['incidents']) in the log message of line 211.
LenIncidents(data) ==
    IF data.kind = "obj"
        /\ \E f \in data.flds : f[1] = "incidents" /\ f[2] \in Sized
    THEN "ok" ELSE "TypeError"

\* Lines 202-211 and 219-222: what parsing and validating the body ends
\* with: "ok", or the exception that leaves the try block.
Validate(body) ==
    IF body = NotJson THEN "ParseError"
    ELSE IF Contains(body) = "TypeError" THEN "TypeError"
    ELSE IF Contains(body) = "no" THEN "ParseError"
    ELSE LenIncidents(body)

\* Lines 181-188: whether the call returns cached data at once.
CacheHit(file, t, use_cache) ==
    LET l == load_from_cache(file, t) IN
    use_cache /\ l.exc = "none" /\ l.used /\ l.data # None

\* Lines 193-200: the exception of the request, if any.
RequestExc(resp) ==
    IF resp.exc # "none" THEN resp.exc ELSE raise_for_status(resp)

\* One call fetch_incidents(use_cache) started at instant t, the endpoint
\* answering resp after d ticks and the cache write meeting wr.
\*   res     "ok" or the exception raised to the caller
\*   ret     the payload returned (None when the call raises)
\*   reqs    the number of requests.get calls made
\*   tmo     the timeout given to requests.get (0: no request)
\*   saved   what _save_to_cache met ("notcalled" when it was not called)
\*   file    the cache file after the call
\*   endt    the instant the call ends
Outcome(r, v, n, tm, s, f, e) ==
    [res |-> r, ret |-> v, reqs |-> n, tmo |-> tm, saved |-> s,
     file |-> f, endt |-> e]

\* A fetch_incidents that writes the cache as soon as the body is parsed,
\* before it looks for `incidents`.
fetch_incidents_saves_first(file, t, use_cache, resp, d, wr) ==
    IF CacheHit(file, t, use_cache)
    THEN Outcome("ok", load_from_cache(file, t).data, 0, 0, "notcalled", file, t)
    ELSE IF RequestExc(resp) # "none"
    THEN Outcome("RequestError", None, 1, RequestTimeout, "notcalled", file, t + d)
    ELSE IF resp.body = NotJson
    THEN Outcome("ParseError", None, 1, RequestTimeout, "notcalled", file, t + d)
    ELSE LET s == IF use_cache THEN save_to_cache(file, resp.body, t + d, wr)
                  ELSE Saved(file, FALSE, "none")
             w == IF use_cache THEN wr ELSE "notcalled"
         IN  IF Validate(resp.body) # "ok"
             THEN Outcome(Validate(resp.body), None, 1, RequestTimeout, w,
                          s.file, t + d)
             ELSE Outcome("ok", resp.body, 1, RequestTimeout, w, s.file, t + d)

fetch_incidents(file, t, use_cache, resp, d, wr) ==
    IF CacheHit(file, t, use_cache)
    THEN Outcome("ok", load_from_cache(file, t).data, 0, 0, "notcalled", file, t)
    ELSE IF RequestExc(resp) # "none"
    THEN Outcome("RequestError", None, 1, RequestTimeout, "notcalled", file, t + d)
    ELSE IF Validate(resp.body) # "ok"
    THEN Outcome(Validate(resp.body), None, 1, RequestTimeout, "notcalled", file, t + d)
    ELSE IF ~use_cache
    THEN Outcome("ok", resp.body, 1, RequestTimeout, "notcalled", file, t + d)
    ELSE LET s == save_to_cache(file, resp.body, t + d, wr) IN
         IF s.exc # "none"
         THEN Outcome(s.exc, None, 1, RequestTimeout, wr, s.file, t + d)
         ELSE Outcome("ok", resp.body, 1, RequestTimeout, wr, s.file, t + d)

\* ========================================================= DataProcessor
\* (src/src/data_processor.py)

\* The longest `incidents` list handed to the processor.
MaxLen == 3

\* ---------------------------------------------------------- incident data
\* The text of a `created_at` string, as far as datetime.fromisoformat
\* looks into it: whether it is an ISO-8601 timestamp at all (iso), the
\* calendar year and month it spells, where in that month it lies (pos:
\* "first" hour, "last" hour, or "mid"), the UTC offset it carries in hours
\* (off), and whether the offset is written as the designator `Z` (z).
IsoText(y, m, p, o, zulu) ==
    [iso |-> TRUE, year |-> y, month |-> m, pos |-> p, off |-> o, z |-> zulu]
\* A string that is no timestamp ("invalid-date", "").
Garbage ==
    [iso |-> FALSE, year |-> 0, month |-> 0, pos |-> "mid", off |-> 0,
     z |-> FALSE]

\* "2025-01-15T00:00:00Z", "2025-03-10T00:00:00Z"
Jan2025 == IsoText(2025, 1, "mid", 0, TRUE)
Mar2025 == IsoText(2025, 3, "mid", 0, TRUE)
\* "2025-02-01T00:30:00+01:00": 2025-01-31T23:30 in UTC
Feb2025East == IsoText(2025, 2, "first", 1, FALSE)
\* "2025-01-31T23:30:00-01:00": 2025-02-01T00:30 in UTC
Jan2025West == IsoText(2025, 1, "last", 0 - 1, FALSE)
\* "0999-12-15T00:00:00+00:00", "1000-01-15T00:00:00+00:00"
Dec999 == IsoText(999, 12, "mid", 0, FALSE)
Jan1000 == IsoText(1000, 1, "mid", 0, FALSE)

\* The value of a `created_at` field: a string, or JSON null.
CreatedAt(t) == [kind |-> "str", text |-> t]
CreatedAtNull == [kind |-> "null", text |-> Garbage]

\* The value of an `impact` field: a string, JSON null, or a JSON list.
Label(l) == [kind |-> "str", label |-> l]
LabelNull == [kind |-> "null", label |-> ""]
LabelList == [kind |-> "arr", label |-> ""]

\* One element of the `incidents` list: a dict, with or without the keys
\* `created_at` and `impact` (a value of a key that is absent is not read).
Incident(hc, ca, hi, im) ==
    [kind |-> "dict", has_created_at |-> hc, created_at |-> ca,
     has_impact |-> hi, impact |-> im]
\* An element that is no dict: JSON null.
NotADict ==
    [kind |-> "null", has_created_at |-> FALSE, created_at |-> CreatedAtNull,
     has_impact |-> FALSE, impact |-> LabelNull]

\* An incident with a timestamp and a severity label.
Rec(t, l) == Incident(TRUE, CreatedAt(t), TRUE, Label(l))

\* The incidents the lists are made of.
Incidents ==
    { Rec(Jan2025, "major"), Rec(Jan2025, "minor"),
      Rec(Feb2025East, "major"), Rec(Jan2025West, "minor"),
      Rec(Dec999, "major"), Rec(Jan1000, "minor"),
      Incident(TRUE, CreatedAt(Jan2025), TRUE, LabelNull),
      Incident(TRUE, CreatedAt(Jan2025), TRUE, LabelList),
      Incident(TRUE, CreatedAt(Mar2025), FALSE, LabelNull),
      Incident(FALSE, CreatedAtNull, TRUE, Label("major")),
      Incident(TRUE, CreatedAt(Garbage), TRUE, Label("major")),
      Incident(TRUE, CreatedAtNull, TRUE, Label("major")),
      NotADict }

\* The value under the `incidents` key: a list, or JSON null.
PyList(items) == [kind |-> "arr", items |-> items]
PyNone == [kind |-> "null", items |-> <<>>]

\* The raw_data given to process_incidents: its Python type, whether
\* `'incidents' in raw_data`, and the value under that key.
Payload(k, hk, inc) == [kind |-> k, has_incidents |-> hk, incidents |-> inc]

IncidentLists == UNION { [1..n -> Incidents] : n \in 0..MaxLen }

\* Payloads with an `incidents` list, a payload whose `incidents` is null, a
\* dict without the key, the list ["incidents"] and None.
RawData ==
    { Payload("dict", TRUE, PyList(l)) : l \in IncidentLists }
      \cup { Payload("dict", TRUE, PyNone), Payload("dict", FALSE, PyNone),
             Payload("arr", TRUE, PyNone), Payload("null", FALSE, PyNone) }

\* ------------------------------------------------------------ month keys
\* Strings are sequences of code points: '-' is 45, '0'..'9' are 48..57.
\* str(n) for n >= 0: the decimal digits, no padding.
RECURSIVE Digits(_)
Digits(n) ==
    IF n < 10 THEN <<48 + n>> ELSE Digits(n \div 10) \o <<48 + (n % 10)>>

\* f"{n:02d}": padded with a zero to two digits.
Pad2(n) == IF n < 10 THEN <<48>> \o Digits(n) ELSE Digits(n)

\* Python's `<` on str: by code point, a proper prefix first.
StrLess(a, b) ==
    \/ \E i \in 1..Len(a) :
         /\ i <= Len(b)
         /\ a[i] < b[i]
         /\ \A j \in 1..(i - 1) : a[j] = b[j]
    \/ /\ Len(a) < Len(b)
       /\ \A j \in 1..Len(a) : a[j] = b[j]

\* What a call ends with: the value it returns, or the exception it raises.
Returned(v) == [res |-> "ok", ret |-> v]
Raised(e) == [res |-> e, ret |-> <<>>]

\* Line 112: .replace('Z', '+00:00')
replace_Z(t) == [t EXCEPT !.z = FALSE]

\* datetime.fromisoformat: the datetime with the calendar fields and the
\* offset the text spells, or ValueError.  (The designator `Z` is read only
\* from Python 3.11 on; the code replaces it before the call.)
fromisoformat(t) ==
    IF t.iso /\ ~t.z
    THEN Returned([year |-> t.year, month |-> t.month, pos |-> t.pos,
                   utcoffset |-> t.off])
    ELSE Raised("ValueError")

\* Line 113: f"{created_date.year}-{created_date.month:02d}"
month_key(created_date) ==
    Digits(created_date.year) \o <<45>> \o Pad2(created_date.month)

\* -------------------------------------------------------- the processor
\* A categorize_by_severity that files a record without `impact` under the
\* label "none".
categorize_default(incident) ==
    IF incident.kind # "dict" \/ ~incident.has_impact
    THEN Returned(Label("none"))
    ELSE Returned(incident.impact)

\* Lines 76-83.
categorize_by_severity(incident) ==
    IF incident.kind # "dict" \/ ~incident.has_impact
    THEN Raised("ValueError")
    ELSE Returned(incident.impact)

\* Values that can be dict keys: strings and None, not lists.
Hashable(v) == v.kind \in {"str", "null"}

\* monthly_data with the month entry initialised (lines 119-120).
WithMonth(monthly_data, key) ==
    [m \in DOMAIN monthly_data \cup {key} |->
       IF m \in DOMAIN monthly_data THEN monthly_data[m] ELSE <<>>]

\* A month entry with one more incident of this severity (lines 123-127).
Bumped(counts, severity) ==
    [s \in DOMAIN counts \cup {severity} |->
       IF s = severity
       THEN (IF s \in DOMAIN counts THEN counts[s] ELSE 0) + 1
       ELSE counts[s]]

\* An increment that stores 1 instead of adding 1.
IncrementOnce(monthly_data, key, severity) ==
    [WithMonth(monthly_data, key) EXCEPT
       ![key] = [s \in DOMAIN @ \cup {severity} |->
                   IF s = severity THEN 1 ELSE @[s]]]

\* An initialisation of a new month that drops the months counted so far.
IncrementResets(monthly_data, key, severity) ==
    IF key \in DOMAIN monthly_data
    THEN [monthly_data EXCEPT ![key] = Bumped(@, severity)]
    ELSE [m \in {key} |-> Bumped(<<>>, severity)]

\* Lines 118-127: count one incident under its month and severity.
Increment(monthly_data, key, severity) ==
    [WithMonth(monthly_data, key) EXCEPT ![key] = Bumped(@, severity)]

\* The state of the sweep after one incident: monthly_data, and the
\* exception that leaves the loop, if any.
Swept(md, e) == [md |-> md, exc |-> e]

\* A loop body that creates the month entry before it asks for the
\* severity: a record without `impact` leaves an empty month behind.
count_incident_month_first(monthly_data, incident) ==
    IF incident.kind # "dict" THEN Swept(monthly_data, "TypeError")
    ELSE IF ~incident.has_created_at THEN Swept(monthly_data, "none")
    ELSE IF incident.created_at.kind # "str"
         THEN Swept(monthly_data, "AttributeError")
    ELSE LET created_date == fromisoformat(replace_Z(incident.created_at.text))
             severity == categorize_by_severity(incident)
         IN  IF created_date.res # "ok" THEN Swept(monthly_data, "none")
             ELSE IF severity.res # "ok"
                  THEN Swept(WithMonth(monthly_data,
                                       month_key(created_date.ret)), "none")
             ELSE IF ~Hashable(severity.ret)
                  THEN Swept(monthly_data, "TypeError")
             ELSE Swept(Increment(monthly_data, month_key(created_date.ret),
                                  severity.ret), "none")

\* Lines 105-131, the loop body for one incident.  `continue` after the
\* warning of line 108 and after the ValueError/KeyError caught at line 129;
\* any other exception leaves the loop and the method.
count_incident(monthly_data, incident) ==
    IF incident.kind # "dict" THEN Swept(monthly_data, "TypeError")
    ELSE IF ~incident.has_created_at THEN Swept(monthly_data, "none")
    ELSE IF incident.created_at.kind # "str"
         THEN Swept(monthly_data, "AttributeError")
    ELSE LET created_date == fromisoformat(replace_Z(incident.created_at.text))
             severity == categorize_by_severity(incident)
         IN  IF created_date.res # "ok" THEN Swept(monthly_data, "none")
             ELSE IF severity.res # "ok" THEN Swept(monthly_data, "none")
             ELSE IF ~Hashable(severity.ret)
                  THEN Swept(monthly_data, "TypeError")
             ELSE Swept(Increment(monthly_data, month_key(created_date.ret),
                                  severity.ret), "none")

\* Lines 104-131: the loop over the incidents, in input order.
RECURSIVE sweep(_, _)
sweep(incidents, monthly_data) ==
    IF incidents = <<>> THEN Swept(monthly_data, "none")
    ELSE LET s == count_incident(monthly_data, Head(incidents))
         IN  IF s.exc # "none" THEN s ELSE sweep(Tail(incidents), s.md)

\* A _normalize_severity_categories that does nothing.
normalize_noop(monthly_data) == monthly_data

\* Lines 152-160: every month gets every severity seen in any month.
normalize_severity_categories(monthly_data) ==
    LET all_severities ==
            UNION { DOMAIN monthly_data[m] : m \in DOMAIN monthly_data }
    IN  [m \in DOMAIN monthly_data |->
           [s \in all_severities |->
              IF s \in DOMAIN monthly_data[m] THEN monthly_data[m][s] ELSE 0]]

\* Lines 102-137.  Iterating over None raises TypeError.
organize_by_month(incidents) ==
    IF incidents.kind # "arr" THEN Raised("TypeError")
    ELSE LET s == sweep(incidents.items, <<>>)
         IN  IF s.exc # "none" THEN Raised(s.exc)
             ELSE Returned(normalize_severity_categories(s.md))

\* A process_incidents that answers a payload without `incidents` with the
\* empty mapping.
process_incidents_lenient(raw) ==
    IF raw.kind # "dict" \/ ~raw.has_incidents THEN Returned(<<>>)
    ELSE IF raw.incidents.kind \notin Sized THEN Raised("TypeError")
    ELSE organize_by_month(raw.incidents)

\* Lines 52-61.  len(incidents) in the log message of line 58 raises
\* TypeError on None.
process_incidents(raw) ==
    IF raw.kind # "dict" \/ ~raw.has_incidents THEN Raised("ValueError")
    ELSE IF raw.incidents.kind \notin Sized THEN Raised("TypeError")
    ELSE organize_by_month(raw.incidents)

\* The record of the last call of a processor method: the method (op), the
\* index of the incident it was given (arg; 0 when it takes the payload or
\* the list), and what it ended with.
Result(op, arg, o) == [op |-> op, arg |-> arg, res |-> o.res, ret |-> o.ret]
NoResult == Result("none", 0, Returned(<<>>))

\* The processor has been given nothing and has done nothing.
ProcessorIdle ==
    /\ raw_data = Payload("dict", FALSE, PyNone)
    /\ result = NoResult

\* ================================================= the cache directory
\* (src/src/data_fetcher.py, _get_cache_path)

\* The longest run of calls on the shared directory the model follows.
MaxCalls == 3

\* Strings are sequences of characters.  str.replace(old, "_") for a
\* pattern of one character.
replace_char(str, old) ==
    [i \in 1..Len(str) |-> IF str[i] = old THEN "_" ELSE str[i]]

\* str.replace("://", "_"): the occurrences from left to right.
RECURSIVE replace_scheme(_)
replace_scheme(str) ==
    IF Len(str) < 3 THEN str
    ELSE IF str[1] = ":" /\ str[2] = "/" /\ str[3] = "/"
         THEN <<"_">> \o replace_scheme(SubSeq(str, 4, Len(str)))
    ELSE <<str[1]>> \o replace_scheme(Tail(str))

\* Lines 94-95: the file name made of the URL; the directory is the same for
\* all fetchers here.
get_cache_path(api_url) ==
    replace_char(replace_char(replace_char(replace_scheme(api_url), "/"),
                              "?"), "&")
      \o <<".", "j", "s", "o", "n">>

\* The target URLs of the fetchers that share the directory:
\* h://a/b  h://a?b  h://a&b  h://a_b  h://a/c  g://a/b
Urls ==
    { <<"h", ":", "/", "/", "a", "/", "b">>,
      <<"h", ":", "/", "/", "a", "?", "b">>,
      <<"h", ":", "/", "/", "a", "&", "b">>,
      <<"h", ":", "/", "/", "a", "_", "b">>,
      <<"h", ":", "/", "/", "a", "/", "c">>,
      <<"g", ":", "/", "/", "a", "/", "b">> }

\* The record of a call on the shared directory: the fetcher's target, the
\* target the returned payload was fetched from, and whether the payload
\* came from the cache.
Got(u, o, h, n) == [url |-> u, origin |-> o, hit |-> h, calls |-> n]

\* An empty directory, no call yet.
KeyIdle ==
    /\ cache_dir = <<>>
    /\ got = Got(<<>>, <<>>, FALSE, 0)

\* ============================================ two writers of one cache file
\* (src/src/data_fetcher.py, _save_to_cache)

\* The most chunks a writer's cache entry is flushed in.
MaxChunks == 2

\* The two processes.
Procs == {1, 2}

\* The serialised entry of process p is written in n chunks, one per flush
\* of the file buffer (the last one at close); Chunk(p, i) is the i-th.
Chunk(p, i) == <<p, i>>
\* Bytes no process wrote: the hole a write past the end leaves.
Hole == <<0, 0>>
Entry(p, n) == [i \in 1..n |-> Chunk(p, i)]
\* The entry an earlier run left in the file.
OldEntry == <<Chunk(3, 1)>>

\* A process in _save_to_cache: where it is (pc), the chunks its entry
\* has (len) and the chunks it has written (off, its own file offset).
Writer(c, n, o) == [pc |-> c, len |-> n, off |-> o]

\* write(2) of chunk c at offset pos - 1 of a file opened without O_APPEND.
write_at(bytes, pos, c) ==
    [i \in 1..(IF pos > Len(bytes) THEN pos ELSE Len(bytes)) |->
       IF i = pos THEN c ELSE IF i <= Len(bytes) THEN bytes[i] ELSE Hole]

\* No process is writing.
RaceIdle ==
    /\ disk = <<>>
    /\ writers = [p \in Procs |-> Writer("none", 0, 0)]

\* ================================================================ main()
\* (src/src/main.py, src/src/visualizer.py)

\* The file named by --cache-file: st says what reading it gives (missing,
\* unreadable, notjson, or json with the parsed value in data).
LFile(st, d) == [st |-> st, data |-> d]

\* A payload whose only incident has `"created_at": null`.
PayloadNullDate == JObj({<<"incidents", "arr">>, <<"meta", "obj">>})

\* The `incidents` list of each payload of the expected shape: PayloadA has
\* two valid incidents and one without `impact`, PayloadB has none.
incidents_of(data) ==
    IF data = PayloadA
    THEN <<Rec(Jan2025, "major"), Rec(Jan2025, "minor"),
           Incident(TRUE, CreatedAt(Mar2025), FALSE, LabelNull)>>
    ELSE IF data = PayloadNullDate
    THEN <<Incident(TRUE, CreatedAtNull, TRUE, Label("major"))>>
    ELSE <<>>

\* The parsed value as process_incidents looks at it (line 252).
as_raw(data) ==
    IF data.kind = "obj"
    THEN Payload("dict", Contains(data) = "yes",
                 IF <<"incidents", "arr">> \in data.flds
                 THEN PyList(incidents_of(data)) ELSE PyNone)
    ELSE Payload(data.kind, Contains(data) = "yes", PyNone)

\* The endpoint answers 200 with the parsed body b.
Status200(b) == [exc |-> "none", status |-> 200, body |-> b]

\* What the endpoint does during a run of main().
MainResponses ==
    { [exc |-> "ConnectionError", status |-> 0, body |-> None],
      Status200(PayloadA), Status200(PayloadB), Status200(PayloadNullDate),
      Status200(None) }

\* What the --cache-file may hold before the first run: nothing, something
\* unreadable, text that is not JSON, bytes that are not text, or a JSON value that no run of this model wrote with
\* incidents in it.
LegacyFiles ==
    { LFile("missing", None), LFile("unreadable", None),
      LFile("notjson", None), LFile("undecodable", None) }
      \cup { LFile("json", d) : d \in {PayloadB, NoIncidents, JNum, None} }

\* What the fetcher's cache file may hold when main() starts.
MainCaches ==
    { File("missing", 0, None), File("entry", 0, PayloadA),
      File("entry", 0, NoIncidents) }

\* What saving the figure meets: it is written, or savefig raises.
RenderOutcomes == {"ok", "IOError"}

\* A load_cached_data that accepts only a dict with an `incidents` key.
load_cached_data_checked(lfile) ==
    IF lfile.st = "json" /\ lfile.data.kind = "obj"
         /\ Contains(lfile.data) = "yes"
    THEN lfile.data ELSE None

\* main.py lines 156-167: the parsed content of the file, whatever it is;
\* None when the file is missing, unreadable or not JSON (and when it holds
\* JSON null).
load_cached_data(lfile) == IF lfile.st = "json" THEN lfile.data ELSE None

\* main.py lines 160-167: the exception that leaves load_cached_data.  Only
\* JSONDecodeError and IOError are caught there: the UnicodeDecodeError of
\* a file that is not UTF-8 text gets out.
load_cached_data_exc(lfile) ==
    IF lfile.st = "undecodable" THEN "UnicodeDecodeError" ELSE "none"

\* A save_cached_data that writes nothing.
save_cached_data_drops(lfile, data, lw) == lfile

\* main.py lines 184-192: the file after save_cached_data; IOError is
\* caught.  lw says what the write meets, as for _save_to_cache.
save_cached_data(lfile, data, lw) ==
    IF lw = "ok" THEN LFile("json", data)
    ELSE IF lw = "openfail" THEN lfile
    ELSE LFile("notjson", None)

\* visualizer.py lines 70-195: the exception generate_visualization raises
\* ("none": it returns) and whether the output file was written.
Drawn(e, w) == [exc |-> e, wrote |-> w]

generate_visualization(processed_data, env) ==
    IF DOMAIN processed_data = {} THEN Drawn("ValueError", FALSE)
    ELSE IF \E m \in DOMAIN processed_data : Len(m) # 7
         THEN Drawn("ValueError", FALSE)
    ELSE IF \E m \in DOMAIN processed_data :
              \E sv \in DOMAIN processed_data[m] : sv.kind # "str"
         THEN Drawn("TypeError", FALSE)
    ELSE IF env = "ok" THEN Drawn("none", TRUE)
    ELSE Drawn(env, FALSE)

\* A legacy file that is used whenever it is named, --no-cache or not.
use_legacy_always(no_cache, cf) == cf

\* main.py lines 233, 237 and 247: `args.cache_file and use_cache`.
use_legacy(no_cache, cf) == cf /\ ~no_cache

\* An exit code that knows the three named exceptions only.
exit_code_named(exc) ==
    IF exc \in {"RequestError", "ParseError", "ValueError"} THEN 1 ELSE 0

\* main.py lines 259-272: 0 at the end of the try block, 1 from every
\* except clause.
exit_code(exc) == IF exc = "none" THEN 0 ELSE 1

\* One run of main(): its arguments, where it stopped and what it did.
\*   failed_at  the step that raised: "load" (load_cached_data), "fetch",
\*              "process" or "render" ("none": all completed)
\*   loaded     load_cached_data gave the payload
\*   fetched    fetch_incidents was called;  reqs: the requests it made
\*   lsaved     what save_cached_data met ("notcalled")
\*   data       the payload handed to process_incidents (None: none)
\*   wrote      the output file was written
Ran(nc, cf, f, e, l, ft, n, ls, dt, w) ==
    [ran |-> TRUE, no_cache |-> nc, cf |-> cf, code |-> exit_code(e),
     exc |-> e, failed_at |-> f, loaded |-> l, fetched |-> ft, reqs |-> n,
     lsaved |-> ls, data |-> dt, wrote |-> w]

NoRun ==
    [ran |-> FALSE, no_cache |-> FALSE, cf |-> FALSE, code |-> 0,
     exc |-> "none", failed_at |-> "none", loaded |-> FALSE,
     fetched |-> FALSE, reqs |-> 0, lsaved |-> "notcalled", data |-> None,
     wrote |-> FALSE]

\* The payloads a run may hand to process_incidents, and what
\* process_incidents does with each (main.py line 252).
MainPayloads == {PayloadA, PayloadB, PayloadNullDate, NoIncidents, JNum, None}
processed == [data \in MainPayloads |-> process_incidents(as_raw(data))]

\* main.py lines 218-272, started at instant t with the fetcher's cache
\* file `file` and the --cache-file `lfile` (cf: the option is given).
main(no_cache, cf, file, lfile, t, resp, d, wr, lw, env) ==
    LET use_cache == ~no_cache
        lexc == IF use_legacy(no_cache, cf)
                THEN load_cached_data_exc(lfile) ELSE "none"
        legacy_data == IF use_legacy(no_cache, cf)
                       THEN load_cached_data(lfile) ELSE None
        fetch == lexc = "none" /\ legacy_data = None
        o == fetch_incidents(file, t, use_cache, resp, d, wr)
        raw == IF fetch THEN o.ret ELSE legacy_data
        lsave == fetch /\ o.res = "ok" /\ use_legacy(no_cache, cf)
        pr == processed[raw]
        v == generate_visualization(pr.ret, env)
        at == IF lexc # "none" THEN "load"
              ELSE IF fetch /\ o.res # "ok" THEN "fetch"
              ELSE IF pr.res # "ok" THEN "process"
              ELSE IF v.exc # "none" THEN "render"
              ELSE "none"
        exc == IF at = "load" THEN lexc
               ELSE IF at = "fetch" THEN o.res
               ELSE IF at = "process" THEN pr.res
               ELSE v.exc
    IN  [rec |-> Ran(no_cache, cf, at, exc, at # "load" /\ ~fetch, fetch,
                     IF fetch THEN o.reqs ELSE 0,
                     IF lsave THEN lw ELSE "notcalled",
                     IF at \in {"load", "fetch"} THEN None ELSE raw,
                     at = "none" /\ v.wrote),
         file |-> IF fetch THEN o.file ELSE file,
         lfile |-> IF lsave THEN save_cached_data(lfile, raw, lw) ELSE lfile,
         endt |-> IF fetch THEN o.endt ELSE t]

\* main() has not run.
MainIdle ==
    /\ legacy = LFile("missing", None)
    /\ run = NoRun

\* ---------------------------------------------------------------- actions
\* The record of the last call: whether there was one, its use_cache, and
\* what it ended with.
Call(c, u, o) ==
    [called |-> c, uc |-> u, res |-> o.res, ret |-> o.ret, reqs |-> o.reqs,
     tmo |-> o.tmo, saved |-> o.saved, endt |-> o.endt]

NoCall ==
    Call(FALSE, FALSE,
         Outcome("ok", None, 0, 0, "notcalled", File("missing", 0, None), 0))

Init ==
    /\ now = 0
    /\ dstShift \in {0 - 1, 0, 1}
    /\ cache_ttl \in 0..MaxTtl
    /\ cache \in CacheFiles
    /\ last = NoCall
    /\ ProcessorIdle
    /\ KeyIdle /\ RaceIdle /\ MainIdle

\* The clock advances.
Tick ==
    /\ now < MaxTime
    /\ now' = now + 1
    /\ UNCHANGED <<dstShift, cache_ttl, cache, last>>
    /\ UNCHANGED processor_vars
    /\ UNCHANGED <<key_vars, race_vars, main_vars>>

\* One call of fetch_incidents, from its first line to its return or raise.
\* An input the call does not consume (the endpoint's delay when no request
\* is made, the write's fate when nothing is written) is left at its first
\* value.
Fetch(use_cache, resp, d, wr) ==
    LET o == fetch_incidents(cache, now, use_cache, resp, d, wr) IN
    /\ now + d <= MaxTime
    /\ o.reqs = 0 => d = 0
    /\ o.saved = "notcalled" => wr = "ok"
    /\ cache' = o.file
    /\ now' = o.endt
    /\ last' = Call(TRUE, use_cache, o)
    /\ UNCHANGED <<dstShift, cache_ttl>>
    /\ UNCHANGED processor_vars
    /\ UNCHANGED <<key_vars, race_vars, main_vars>>

\* The inputs a call started in the current state consumes: no response and
\* no delay when it is served from the cache, a write outcome only when it
\* reaches _save_to_cache.
ResponsesRead(use_cache) ==
    IF CacheHit(cache, now, use_cache)
    THEN {CHOOSE r \in Responses : TRUE} ELSE Responses
DelaysRead(use_cache) ==
    IF CacheHit(cache, now, use_cache) THEN {0} ELSE Delays
WritesMet(use_cache, resp) ==
    IF use_cache /\ RequestExc(resp) = "none" /\ Validate(resp.body) = "ok"
    THEN WriteOutcomes ELSE {"ok"}

Next ==
    \/ Tick
    \/ \E use_cache \in BOOLEAN :
         \E resp \in ResponsesRead(use_cache), d \in DelaysRead(use_cache) :
           \E wr \in WritesMet(use_cache, resp) : Fetch(use_cache, resp, d, wr)

Spec == Init /\ [][Next]_vars

\* ------------------------------------------------- the processor's actions
\* The fetcher has been given nothing and has done nothing.
FetcherIdle ==
    /\ now = 0
    /\ dstShift = 0
    /\ cache_ttl = 0
    /\ cache = File("missing", 0, None)
    /\ last = NoCall

ProcInit ==
    /\ FetcherIdle
    /\ raw_data \in RawData
    /\ result = NoResult
    /\ KeyIdle /\ RaceIdle /\ MainIdle

\* process_incidents(raw_data)
ProcessIncidents ==
    /\ result' = Result("process_incidents", 0, process_incidents(raw_data))
    /\ UNCHANGED raw_data
    /\ UNCHANGED fetcher_vars
    /\ UNCHANGED <<key_vars, race_vars, main_vars>>

\* organize_by_month(raw_data['incidents'])
OrganizeByMonth ==
    /\ raw_data.kind = "dict" /\ raw_data.has_incidents
    /\ result' = Result("organize_by_month", 0,
                        organize_by_month(raw_data.incidents))
    /\ UNCHANGED raw_data
    /\ UNCHANGED fetcher_vars
    /\ UNCHANGED <<key_vars, race_vars, main_vars>>

\* categorize_by_severity(raw_data['incidents'][i - 1])
CategorizeBySeverity(i) ==
    /\ raw_data.kind = "dict" /\ raw_data.has_incidents
    /\ raw_data.incidents.kind = "arr"
    /\ i \in 1..Len(raw_data.incidents.items)
    /\ result' = Result("categorize_by_severity", i,
                        categorize_by_severity(raw_data.incidents.items[i]))
    /\ UNCHANGED raw_data
    /\ UNCHANGED fetcher_vars
    /\ UNCHANGED <<key_vars, race_vars, main_vars>>

ProcNext ==
    \/ ProcessIncidents
    \/ OrganizeByMonth
    \/ \E i \in 1..MaxLen : CategorizeBySeverity(i)

SpecProc == ProcInit /\ [][ProcNext]_vars

\* ---------------------------------------- calls on a shared cache directory
KeyInit ==
    /\ FetcherIdle /\ ProcessorIdle /\ RaceIdle /\ MainIdle
    /\ KeyIdle

\* fetch_incidents(use_cache=True) of a fetcher with target api_url, the
\* endpoint answering with a valid payload and the cache write succeeding.
\* Each file of the directory is shown by the target its data was fetched
\* from; `fresh` says whether the entry found is within cache_ttl.
FetchTarget(api_url, fresh) ==
    LET path == get_cache_path(api_url) IN
    /\ got.calls < MaxCalls
    /\ IF path \in DOMAIN cache_dir /\ fresh
       THEN /\ got' = Got(api_url, cache_dir[path], TRUE, got.calls + 1)
            /\ UNCHANGED cache_dir
       ELSE /\ got' = Got(api_url, api_url, FALSE, got.calls + 1)
            /\ cache_dir' = [f \in DOMAIN cache_dir \cup {path} |->
                               IF f = path THEN api_url ELSE cache_dir[f]]
    /\ UNCHANGED <<fetcher_vars, processor_vars, race_vars, main_vars>>

KeyNext == \E api_url \in Urls, fresh \in BOOLEAN : FetchTarget(api_url, fresh)

SpecKey == KeyInit /\ [][KeyNext]_vars

\* ------------------------------------------- two processes in _save_to_cache
\* Both processes have fetched a payload and are about to write the file,
\* which may hold an older entry.
RaceInit ==
    /\ FetcherIdle /\ ProcessorIdle /\ KeyIdle /\ MainIdle
    /\ disk \in {<<>>, OldEntry}
    /\ writers \in [Procs -> { Writer("start", n, 0) : n \in 1..MaxChunks }]

\* Line 155: open(cache_path, 'w') truncates the file.
Open(p) ==
    /\ writers[p].pc = "start"
    /\ disk' = <<>>
    /\ writers' = [writers EXCEPT ![p].pc = "open"]
    /\ UNCHANGED <<fetcher_vars, processor_vars, key_vars, main_vars>>

\* Line 156: json.dump; the buffer is flushed at the process's own offset.
WriteChunk(p) ==
    /\ writers[p].pc = "open"
    /\ writers[p].off < writers[p].len
    /\ disk' = write_at(disk, writers[p].off + 1, Chunk(p, writers[p].off + 1))
    /\ writers' = [writers EXCEPT ![p].off = @ + 1]
    /\ UNCHANGED <<fetcher_vars, processor_vars, key_vars, main_vars>>

\* The end of the `with` block: the file is closed.
Close(p) ==
    /\ writers[p].pc = "open"
    /\ writers[p].off = writers[p].len
    /\ writers' = [writers EXCEPT ![p].pc = "closed"]
    /\ UNCHANGED disk
    /\ UNCHANGED <<fetcher_vars, processor_vars, key_vars, main_vars>>

RaceNext == \E p \in Procs : Open(p) \/ WriteChunk(p) \/ Close(p)

SpecRace == RaceInit /\ [][RaceNext]_vars

\* -------------------------------------------------------- runs of main()
MainInit ==
    /\ now = 0
    /\ dstShift = 0
    /\ cache_ttl \in 0..MaxTtl
    /\ cache \in MainCaches
    /\ last = NoCall
    /\ ProcessorIdle /\ KeyIdle /\ RaceIdle
    /\ legacy \in LegacyFiles
    /\ run = NoRun

\* One run of main() from its first line to its return.
Main(no_cache, cf, resp, d, wr, lw, env) ==
    LET m == main(no_cache, cf, cache, legacy, now, resp, d, wr, lw, env) IN
    /\ now + d <= MaxTime
    /\ run' = m.rec
    /\ cache' = m.file
    /\ legacy' = m.lfile
    /\ now' = m.endt
    /\ UNCHANGED <<dstShift, cache_ttl, last>>
    /\ UNCHANGED <<processor_vars, key_vars, race_vars>>

\* The inputs a run started in the current state consumes: a response when
\* it makes a request (answered at once: slow answers are covered by Fetch),
\* the fate of the cache write when it
\* reaches _save_to_cache, the fate of the legacy write when it reaches
\* save_cached_data, the fate of the figure when it reaches savefig.
Fetches(no_cache, cf) ==
    use_legacy(no_cache, cf) =>
        load_cached_data_exc(legacy) = "none" /\ load_cached_data(legacy) = None
Requests(no_cache, cf) ==
    Fetches(no_cache, cf) /\ ~CacheHit(cache, now, ~no_cache)
Passes(resp) == RequestExc(resp) = "none" /\ Validate(resp.body) = "ok"
MainResponsesRead(no_cache, cf) ==
    IF Requests(no_cache, cf) THEN MainResponses
    ELSE {CHOOSE r \in MainResponses : TRUE}
MainWritesMet(no_cache, cf, resp) ==
    IF Requests(no_cache, cf) /\ ~no_cache /\ Passes(resp)
    THEN WriteOutcomes ELSE {"ok"}
LegacyWritesMet(no_cache, cf, resp) ==
    IF Fetches(no_cache, cf) /\ use_legacy(no_cache, cf)
         /\ (Requests(no_cache, cf) => Passes(resp))
    THEN WriteOutcomes ELSE {"ok"}
RendersMet(no_cache, cf, resp) ==
    IF main(no_cache, cf, cache, legacy, now, resp, 0, "ok", "ok",
            "ok").rec.failed_at = "none"
    THEN RenderOutcomes ELSE {"ok"}

MainNext ==
    \/ Tick
    \/ \E no_cache, cf \in BOOLEAN :
         \E resp \in MainResponsesRead(no_cache, cf) :
           \E env \in RendersMet(no_cache, cf, resp) :
             \E wr \in MainWritesMet(no_cache, cf, resp),
                lw \in LegacyWritesMet(no_cache, cf, resp) :
               Main(no_cache, cf, resp, 0, wr, lw, env)

SpecMain == MainInit /\ [][MainNext]_vars

\* ------------------------------------------------------------- properties
\* A step that is a call of fetch_incidents: Tick leaves `last` alone, and a
\* call that repeats the last one at the same instant with the same outcome
\* leaves the whole state as it was.
CallStep == last' # last

\* The age of the cache entry at instant t, on the epoch clock.
Age(file, t) == t - file.ts

\* Whether `data` is a structure that contains an `incidents` collection.
HasIncidents(data) ==
    /\ data.kind = "obj"
    /\ \E f \in data.flds : f[1] = "incidents" /\ f[2] \in Sized

\* The responses with which the request fails at transport level:
\* requests.get raises, or the status is a 4xx or a 5xx.
FailingResponses ==
    [exc : TransportExc, status : {0}, body : {None}]
      \cup [exc : {"none"}, status : {404, 503}, body : {None}]

\* The request succeeds with the parsed body b.
Answer(b) == [exc |-> "none", status |-> 200, body |-> b]

\* The responses with which the request succeeds with a body of the
\* expected shape.
ValidResponses == { Answer(PayloadA), Answer(PayloadB) }

\* The responses with which the request succeeds with a body that is not
\* JSON, or whose parsed value does not contain an `incidents` key: an
\* object without the key, a list, a string, a number, null.
KeylessResponses ==
    { Answer(NotJson), Answer(NoIncidents), Answer(None), Answer(JNum),
      Answer(JStr(<<"abc">>)), Answer(JStr(<<"my ", "incidents">>)),
      Answer(JArr(<<"a">>)), Answer(JArr(<<"incidents">>)) }

\* The ticks a step takes on the epoch clock: the delay of the call it is.
Took == now' - now

\* C1: a call with use_cache=True that finds a cache entry with a timestamp
\* and a data field and with now - timestamp <= cache_ttl returns that
\* entry's data and makes no network request.  (Read in the claim's favour:
\* the data field is not null, which line 184 takes for a miss.)
C1_FreshEntryIsServed ==
    [][ CallStep /\ last'.uc /\ cache.st = "entry" /\ cache.data # None
          /\ Age(cache, now) <= cache_ttl
        => last'.res = "ok" /\ last'.ret = cache.data /\ last'.reqs = 0 ]_vars

\* C2: whatever the cache file holds, a call with use_cache=True treats a
\* failed, invalid or expired read as a miss and goes on to the network, and
\* raises nothing but RequestError and ParseError.
C2_CacheReadNeverRaises ==
    [][ CallStep /\ last'.uc
        => /\ last'.res \in {"ok", "RequestError", "ParseError"}
           /\ (cache.st \in BrokenKinds
                 \/ (cache.st = "entry" /\ Age(cache, now) > cache_ttl))
              => last'.reqs = 1 ]_vars

\* C3: no call returns the data of a cache entry older than cache_ttl; an
\* entry ttl+1 old is a miss, an entry exactly ttl old is a hit.
C3_NeverServesExpired ==
    [][ CallStep /\ last'.uc /\ cache.st = "entry" /\ cache.data # None
        => /\ (last'.res = "ok" /\ last'.reqs = 0) => Age(cache, now) <= cache_ttl
           /\ Age(cache, now) = cache_ttl + 1 => last'.reqs = 1
           /\ Age(cache, now) = cache_ttl
              => last'.reqs = 0 /\ last'.ret = cache.data ]_vars

\* C4: of two calls with use_cache=True, the second started within cache_ttl
\* of the end of the first, at most one makes a network request.  (Read in
\* the claim's favour: the first call returned a payload, and stored it if
\* it fetched it.)
C4_TwoCallsOneRequest ==
    [][ CallStep /\ last.called /\ last.uc /\ last'.uc
          /\ last.res = "ok" /\ last.saved \in {"notcalled", "ok"}
          /\ now - last.endt <= cache_ttl
        => last.reqs + last'.reqs <= 1 ]_vars

\* C5: a call that is not served from the cache makes exactly one request,
\* with a timeout of 30 s; if the request fails at transport level the call
\* raises RequestError and returns nothing.
C5_OneRequestNoRetry ==
    [][ /\ (CallStep /\ ~CacheHit(cache, now, last'.uc))
           => last'.reqs = 1 /\ last'.tmo = 30
        /\ \A resp \in FailingResponses :
             (last'.reqs = 1 /\ ~CacheHit(cache, now, last'.uc)
                /\ Fetch(last'.uc, resp, Took, "ok"))
             => last'.res = "RequestError" /\ last'.ret = None ]_vars

C5_Witness ==
    last.called /\ last.reqs = 1 /\ last.res = "RequestError"

\* C6: fetch_incidents() with its default arguments raises RequestError
\* whenever the HTTP request raises an HTTP error, a connection error or a
\* timeout, whatever calls came before on the same cache directory.
C6_FailingEndpointRaises ==
    [][ \A resp \in FailingResponses :
          Fetch(TRUE, resp, Took, "ok") => last'.res = "RequestError" ]_vars

\* C7: when the request succeeds and the body is not JSON, or parses to a
\* value of any JSON type without an `incidents` key, the call raises
\* ParseError and nothing else.
C7_KeylessBodyIsParseError ==
    [][ \A resp \in KeylessResponses :
          (last'.reqs = 1 /\ Fetch(last'.uc, resp, Took, "ok"))
          => last'.res = "ParseError" ]_vars

\* C8: every payload a call returns, from the network or from the cache,
\* contains an `incidents` collection.
C8_ReturnedPayloadHasIncidents ==
    (last.called /\ last.res = "ok") => HasIncidents(last.ret)

C10_CacheHoldsFetchedPayload ==
    (last.called /\ last.uc /\ last.res = "ok" /\ last.reqs = 1
       /\ last.saved = "ok")
    => cache = File("entry", last.endt, last.ret)

C10_Witness ==
    last.called /\ last.uc /\ last.res = "ok" /\ last.reqs = 1
      /\ last.saved = "ok" /\ cache.st = "entry" /\ cache.ts > 0

\* C11: for every payload P, after _save_to_cache(P) has written the cache
\* file, _load_from_cache started before cache_ttl has elapsed returns P,
\* flagged as a cache hit.
C11_CacheRoundTrip ==
    (last.called /\ last.saved = "ok" /\ now - last.endt <= cache_ttl)
    => load_from_cache(cache, now) = Loaded(last.ret, TRUE, "none")

\* --------------------------------------------- properties of the processor
\* The list the processor was given, when raw_data holds one.
Items == raw_data.incidents.items

\* organize_by_month was called on a list / has returned a mapping.
Swept_List ==
    result.op = "organize_by_month" /\ raw_data.incidents.kind = "arr"
Organized == result.op = "organize_by_month" /\ result.res = "ok"

\* A valid record: a parseable `created_at` and an `impact`.
Valid(inc) ==
    /\ inc.kind = "dict"
    /\ inc.has_created_at /\ inc.created_at.kind = "str"
    /\ inc.created_at.text.iso
    /\ inc.has_impact
ValidIdx == { i \in 1..Len(Items) : Valid(Items[i]) }

\* A record whose only defect is the absence of `impact`.
LacksImpactOnly(inc) ==
    /\ inc.kind = "dict"
    /\ inc.has_created_at /\ inc.created_at.kind = "str"
    /\ inc.created_at.text.iso
    /\ ~inc.has_impact

\* A record of the kinds the sweep is said to skip or count: a dict whose
\* `impact`, when present, is a string or null; its `created_at` may be
\* absent, null, unparsable or a timestamp.
WellTyped(inc) ==
    inc.kind = "dict" /\ (inc.has_impact => Hashable(inc.impact))

\* The key of the month the text of a timestamp spells.
WrittenKey(inc) ==
    month_key([year |-> inc.created_at.text.year,
               month |-> inc.created_at.text.month])

\* The year and month of a timestamp's instant in the UTC calendar: the
\* first hour of a month written with an offset east of UTC lies in the
\* month before, the last hour written with an offset west of UTC in the
\* month after.
UtcMonth(t) ==
    IF t.pos = "first" /\ t.off > 0
    THEN (IF t.month = 1 THEN [year |-> t.year - 1, month |-> 12]
          ELSE [year |-> t.year, month |-> t.month - 1])
    ELSE IF t.pos = "last" /\ t.off < 0
    THEN (IF t.month = 12 THEN [year |-> t.year + 1, month |-> 1]
          ELSE [year |-> t.year, month |-> t.month + 1])
    ELSE [year |-> t.year, month |-> t.month]
UtcKey(inc) == month_key(UtcMonth(inc.created_at.text))

\* The month a record is written in comes before the month of another.
Earlier(a, b) ==
    LET s == a.created_at.text
        t == b.created_at.text
    IN  s.year < t.year \/ (s.year = t.year /\ s.month < t.month)

\* The permutations of 1..n.
Perms(n) ==
    { f \in [1..n -> 1..n] : \A i, j \in 1..n : f[i] = f[j] => i = j }

\* C12: in the mapping organize_by_month returns, every month has the same
\* set of severity keys: the labels counted anywhere in the batch.
C12_EveryMonthHasEveryLabel ==
    Organized
    => \A m \in DOMAIN result.ret :
         DOMAIN result.ret[m] = { Items[i].impact : i \in ValidIdx }

C12_Witness ==
    /\ Organized
    /\ \E m \in DOMAIN result.ret :
         \E s \in DOMAIN result.ret[m] : result.ret[m][s] = 0

\* C13: every cell result[m][s] is the number of valid records written in
\* month m with impact s, and every valid record has its cell; the records
\* without `created_at`, with an unparsable one or without `impact` are in
\* no cell, so the cells add up to the number of valid records.  (The month
\* of a record is here the one its timestamp spells; C17 is about the
\* calendar.)
C13_CellsCountValidRecords ==
    Organized
    => /\ \A m \in DOMAIN result.ret : \A s \in DOMAIN result.ret[m] :
            result.ret[m][s] =
              Cardinality({ i \in ValidIdx :
                              WrittenKey(Items[i]) = m /\ Items[i].impact = s })
       /\ \A i \in ValidIdx :
            /\ WrittenKey(Items[i]) \in DOMAIN result.ret
            /\ Items[i].impact \in DOMAIN result.ret[WrittenKey(Items[i])]

C13_Witness ==
    /\ Organized
    /\ \E i \in 1..Len(Items) : ~Valid(Items[i])
    /\ \E m \in DOMAIN result.ret :
         \E s \in DOMAIN result.ret[m] : result.ret[m][s] = 2

\* C14: organize_by_month does not raise on a list of records whose
\* `created_at` is absent, null, unparsable or a timestamp and whose
\* `impact` is absent or a label: the malformed ones are skipped.
C14_MalformedRecordIsSkipped ==
    (Swept_List /\ \A i \in 1..Len(Items) : WellTyped(Items[i]))
    => result.res = "ok"

\* C15: categorize_by_severity returns the record's `impact` unchanged when
\* it is there and raises ValueError when it is not; organize_by_month does
\* not raise ValueError, and on records that are valid or lack only
\* `impact` it returns, with no month owed to a record without `impact`.
C15_MissingImpactRaisesOrSkips ==
    /\ result.op = "categorize_by_severity"
       => IF Items[result.arg].kind = "dict" /\ Items[result.arg].has_impact
          THEN result.res = "ok" /\ result.ret = Items[result.arg].impact
          ELSE result.res = "ValueError"
    /\ result.op = "organize_by_month" => result.res # "ValueError"
    /\ (Swept_List
          /\ \A i \in 1..Len(Items) :
               WellTyped(Items[i])
                 /\ (Valid(Items[i]) \/ LacksImpactOnly(Items[i])))
       => /\ result.res = "ok"
          /\ \A i \in 1..Len(Items) :
               (LacksImpactOnly(Items[i])
                  /\ WrittenKey(Items[i]) \in DOMAIN result.ret)
               => \E j \in ValidIdx : WrittenKey(Items[j]) = WrittenKey(Items[i])

C15_Witness ==
    /\ result.op = "categorize_by_severity"
    /\ Items[result.arg].kind = "dict" /\ ~Items[result.arg].has_impact
    /\ result.res = "ValueError"

\* C16: process_incidents raises ValueError on a payload without an
\* `incidents` key, and on a payload with one it ends exactly as
\* organize_by_month ends on payload['incidents'].
C16_ProcessDelegates ==
    result.op = "process_incidents"
    => IF raw_data.kind = "dict" /\ raw_data.has_incidents
       THEN [res |-> result.res, ret |-> result.ret]
              = organize_by_month(raw_data.incidents)
       ELSE result.res = "ValueError"

C16_Witness ==
    /\ result.op = "process_incidents"
    /\ result.res = "ok"
    /\ DOMAIN result.ret # {}

\* C17: every valid record is counted under the year and month of its
\* instant in the UTC calendar, also when its timestamp carries an offset
\* that puts its local date in another month.
C17_MonthIsUtcMonth ==
    Organized
    => /\ \A i \in ValidIdx :
            /\ UtcKey(Items[i]) \in DOMAIN result.ret
            /\ Items[i].impact \in DOMAIN result.ret[UtcKey(Items[i])]
       /\ \A m \in DOMAIN result.ret : \A s \in DOMAIN result.ret[m] :
            result.ret[m][s] =
              Cardinality({ i \in ValidIdx :
                              UtcKey(Items[i]) = m /\ Items[i].impact = s })

\* C18: the month keys organize_by_month generates sort as strings in the
\* order of the months they stand for.
C18_KeysSortByDate ==
    Organized
    => \A i, j \in ValidIdx :
         (WrittenKey(Items[i]) \in DOMAIN result.ret
            /\ WrittenKey(Items[j]) \in DOMAIN result.ret)
         => (StrLess(WrittenKey(Items[i]), WrittenKey(Items[j]))
               <=> Earlier(Items[i], Items[j]))

\* C19: organize_by_month returns the empty mapping exactly when no record
\* is valid, and with no valid record it returns it and raises nothing.
\* (Read in the claim's favour: the records are dicts whose `impact`, when
\* present, is a string or null.)
C19_EmptyIffNoValidRecord ==
    (Swept_List /\ \A i \in 1..Len(Items) : WellTyped(Items[i]))
    => /\ ValidIdx = {} => result.res = "ok" /\ DOMAIN result.ret = {}
       /\ result.res = "ok" => (DOMAIN result.ret = {} <=> ValidIdx = {})

\* C20: the mapping organize_by_month returns on a list is the mapping it
\* returns on every permutation of the list.
C20_OrderDoesNotMatter ==
    Organized
    => \A p \in Perms(Len(Items)) :
         organize_by_month(PyList([i \in 1..Len(Items) |-> Items[p[i]]]))
           = Returned(result.ret)

C20_Witness ==
    /\ Organized
    /\ Len(Items) = MaxLen
    /\ Cardinality(DOMAIN result.ret) >= 2
    /\ \E i \in 1..Len(Items) : ~Valid(Items[i])

\* C27: a call that ends in RequestError or ParseError leaves the cache file
\* as it was, and the cache is written only by a call whose response passed
\* the validation (a call that then returns the payload).
C27_FailedCallLeavesCache ==
    [][ CallStep
        => /\ last'.res \in {"RequestError", "ParseError"} => cache' = cache
           /\ last'.saved # "notcalled" => last'.res = "ok" /\ last'.reqs = 1
           /\ cache' # cache => last'.saved # "notcalled" ]_vars

C27_Witness ==
    /\ last.called /\ last.uc
    /\ last.res = "ParseError"
    /\ cache.st = "entry" /\ cache.data = PayloadA

\* C28: a cache hit leaves the cache file as it was, timestamp included; an
\* entry is not served once it is older than cache_ttl, and the call that
\* finds it older goes to the network.
C28_HitDoesNotRefresh ==
    [][ CallStep /\ last'.uc /\ cache.st = "entry" /\ cache.data # None
        => /\ last'.reqs = 0 => cache' = cache
           /\ Age(cache, now) > cache_ttl => last'.reqs = 1 ]_vars

\* C29: in a mapping organize_by_month returns, every count is a natural
\* number, every month has a count of at least 1 and every severity has a
\* count of at least 1 in some month.
C29_NoEmptyRowOrColumn ==
    Organized
    => /\ \A m \in DOMAIN result.ret : \A s \in DOMAIN result.ret[m] :
            result.ret[m][s] \in Nat
       /\ \A m \in DOMAIN result.ret :
            \E s \in DOMAIN result.ret[m] : result.ret[m][s] >= 1
       /\ \A m \in DOMAIN result.ret : \A s \in DOMAIN result.ret[m] :
            \E n \in DOMAIN result.ret : result.ret[n][s] >= 1

C29_Witness ==
    /\ Organized
    /\ DOMAIN result.ret # {}
    /\ \E i \in 1..Len(Items) : LacksImpactOnly(Items[i])

\* C26: the payload a fetcher with target T gets from the cache was fetched
\* from T, and no call of a fetcher with another target replaces the entry
\* written for T.
C26_CacheKeyedByTarget ==
    [][ /\ got'.hit => got'.origin = got'.url
        /\ \A f \in DOMAIN cache_dir : cache_dir'[f] = cache_dir[f] ]_vars

\* C24: when two processes have both written the cache file and closed it,
\* the file holds the whole entry of one of them and nothing else.
C24_LastWriterWins ==
    (\A p \in Procs : writers[p].pc = "closed")
    => \E p \in Procs : disk = Entry(p, writers[p].len)

\* ------------------------------------------------- properties of main()
\* A step that is a run of main(): the clock stands still while it runs.
MainStep == now' = now /\ run'.ran

\* The payload has an `incidents` list and no valid record in it.
NoValidRecord(data) ==
    /\ data.kind = "obj"
    /\ <<"incidents", "arr">> \in data.flds
    /\ \A i \in 1..Len(incidents_of(data)) : ~Valid(incidents_of(data)[i])

\* C21: a run of main() returns 1 exactly when acquiring the payload,
\* processing it or rendering it raised, whatever the exception; a run that
\* returns 0 has got its payload (from fetch_incidents or from the
\* --cache-file), processed it without error and written the figure.
C21_ExitCode ==
    run.ran =>
      /\ run.code \in {0, 1}
      /\ run.code = 1 <=>
            run.failed_at \in {"load", "fetch", "process", "render"}
      /\ run.failed_at = "none" <=> run.exc = "none"
      /\ run.code = 0 =>
            /\ run.loaded # run.fetched
            /\ run.data # None
            /\ processed[run.data].res = "ok"
            /\ run.wrote
      /\ run.failed_at \in {"load", "fetch"} =>
            run.data = None /\ ~run.wrote
      /\ run.failed_at = "process" =>
            processed[run.data].res = run.exc /\ ~run.wrote
C21_Witness ==
    /\ run.ran /\ run.fetched
    /\ run.failed_at = "render" /\ run.exc = "IOError" /\ run.code = 1

\* C22 (as stated): after a run with --cache-file and caching enabled that
\* fetched a payload, the next run with --cache-file and caching enabled
\* loads the payload from the file, does not call fetch_incidents and
\* returns 0.
C22_SecondRunLoads ==
    [][ /\ MainStep
        /\ run.ran /\ run.cf /\ ~run.no_cache
        /\ run.fetched /\ run.failed_at # "fetch"
        /\ run'.cf /\ ~run'.no_cache
        => /\ run'.loaded /\ ~run'.fetched
           /\ run'.data = run.data
           /\ run'.code = 0 ]_vars

\* C22 (amended): after a run with --cache-file and caching enabled that
\* fetched a payload and wrote it to the file, the next run with
\* --cache-file and caching enabled loads that payload from the file, does
\* not call fetch_incidents and leaves both files as they are; it fails in
\* process_incidents exactly when the first run did, with the same
\* exception, and returns 0 when the first run did unless the figure
\* cannot be written.
C22_SecondRunLoadsWhatWasSaved ==
    [][ /\ MainStep
        /\ run.ran /\ run.cf /\ ~run.no_cache
        /\ run.fetched /\ run.failed_at # "fetch"
        /\ run.lsaved = "ok"
        /\ run'.cf /\ ~run'.no_cache
        => /\ run'.loaded /\ ~run'.fetched /\ run'.reqs = 0
           /\ run'.data = run.data
           /\ legacy' = legacy /\ cache' = cache
           /\ run'.failed_at # "fetch"
           /\ run'.failed_at = "process" <=> run.failed_at = "process"
           /\ run.failed_at = "process" => run'.exc = run.exc
           /\ run.code = 0 =>
                \/ run'.code = 0
                \/ run'.failed_at = "render" /\ run'.exc = "IOError" ]_vars
C22_Witness ==
    /\ run.ran /\ run.cf /\ ~run.no_cache
    /\ run.loaded /\ run.data = PayloadA /\ run.code = 0
    /\ legacy = LFile("json", PayloadA)

\* C23: a run with --no-cache calls fetch_incidents, which makes a request
\* whatever the cache file holds; it does not load the --cache-file, does
\* not call save_cached_data, and leaves the fetcher's cache file and the
\* --cache-file as they were.
C23_NoCacheTouchesNoFile ==
    [][ MainStep /\ run'.no_cache
        => /\ run'.fetched /\ run'.reqs = 1
           /\ ~run'.loaded
           /\ run'.lsaved = "notcalled"
           /\ cache' = cache
           /\ legacy' = legacy ]_vars
C23_Witness ==
    /\ run.ran /\ run.no_cache /\ run.cf /\ run.code = 0
    /\ cache = File("entry", 0, NoIncidents)
    /\ legacy = LFile("json", JNum)

\* C25: a run whose payload has an `incidents` list with no valid record in
\* it gets the empty mapping from process_incidents and fails in
\* generate_visualization with ValueError, before the figure is written,
\* and returns 1.
C25_EmptyMatrixRejected ==
    run.ran /\ run.data # None /\ NoValidRecord(run.data)
    => /\ processed[run.data] = Returned(<<>>)
       /\ run.failed_at = "render" /\ run.exc = "ValueError"
       /\ ~run.wrote
       /\ run.code = 1

\* C30: a run with --cache-file and caching enabled that finds a JSON value
\* other than null in the file does not call fetch_incidents, makes no
\* request, writes neither file and hands the value to process_incidents,
\* at every instant and for every cache_ttl.
C30_LegacyFileUnchecked ==
    [][ /\ MainStep /\ run'.cf /\ ~run'.no_cache
        /\ legacy.st = "json" /\ legacy.data # None
        => /\ run'.loaded /\ ~run'.fetched /\ run'.reqs = 0
           /\ run'.lsaved = "notcalled"
           /\ legacy' = legacy /\ cache' = cache
           /\ run'.failed_at # "fetch"
           /\ run'.data = legacy.data ]_vars
C30_Witness ==
    /\ run.ran /\ run.loaded /\ run.data = JNum
    /\ run.failed_at = "process" /\ run.exc = "ValueError"
    /\ now > cache_ttl
    /\ legacy = LFile("json", JNum)

====
